---- MODULE Spec2Model ----
(***************************************************************************)
(* goal-tracker-backend: the streak tracker of the User model, the         *)
(* update-streak request handler and the dashboard statistics handler.     *)
(*                                                                         *)
(* Time is the wall clock `now` in milliseconds since the epoch, as        *)
(* `new Date()` reads it.  Dates are truncated to midnight in a time zone  *)
(* with a fixed offset (the epoch is a midnight), so a calendar day is     *)
(* MsPerDay long.                                                          *)
(***************************************************************************)
EXTENDS Integers, Sequences, FiniteSets, TLC

VARIABLES
    now,        \* the wall clock, in ms
    streak,     \* stats.streak of the stored user document
    lastCall,   \* what the last updateStreak call saw and did
    reply,      \* the last response of POST /api/user/update-streak
    reqs,       \* the update-streak requests in flight: position and document
    goals,      \* the goals collection: goal id -> document or NoGoal
    dash,       \* the dashboard request in flight: position and counts so far
    summary,    \* the summary of the last dashboard response
    gres,       \* the last response of the routes on /api/goals
    series,     \* the last response of GET /api/stats/progress
    pct,        \* a percentage of getStatsByCategory: its inputs and result
    overview,   \* GET /api/goals/stats/overview: position and last response
    user,       \* the stored user document, without its streak
    ops,        \* the other /api/user requests in flight
    call,       \* the last call of a method of a goal document
    docs,       \* the number of user documents with the firebaseUid Uid
    inits       \* the POST /api/user/initialize requests in flight

vars ==
    <<now, streak, lastCall, reply, reqs, goals, dash, summary, gres, series,
      pct, overview, user, ops, call, docs, inits>>

\* The variables of the goal statistics and of the user routes.
statVars == <<series, pct, overview>>

userVars == <<user, ops>>

\* The variables of the method calls and of the users collection.
siteVars == <<call, docs, inits>>

----------------------------------------------------------------------------
(* Bounds of the model *)

MaxDay == 5
MaxJump == 3
NumReqs == 2
MaxCalls == 5
NumGoals == 2
MaxCount == 13
MaxLate == 2
MaxSubtasks == 1
MaxMethodSubtasks == 3

----------------------------------------------------------------------------
(* The clock *)

MsPerDay == 1000 * 60 * 60 * 24

\* The clock is observed twice a day.
ClockStep == MsPerDay \div 2

MaxNow == MaxDay * MsPerDay + ClockStep

\* lastActiveDate of a user who was never active (the path is not set).
NoDate == -1

\* Date.prototype.setHours(0, 0, 0, 0): the midnight that starts the day of t.
StartOfDay(t) == t - (t % MsPerDay)

\* The calendar day a timestamp lies in, counted from the epoch.
DayOf(t) == t \div MsPerDay

----------------------------------------------------------------------------
(* models/User.js: the streak *)

\* A freshly created user: the schema defaults of stats.streak.
FreshStreak == [current |-> 0, longest |-> 0, lastActiveDate |-> NoDate]

\* The local daysDiff of updateStreak for a document whose lastActiveDate is set.
DaysDiff(s, t) == (StartOfDay(t) - StartOfDay(s.lastActiveDate)) \div MsPerDay

\* A first activity that leaves longest alone.
FirstActivityKeepsLongest(s) == [s EXCEPT !.current = 1]

\* The else branch of updateStreak: the first activity.
FirstActivity(s) == [s EXCEPT !.current = 1, !.longest = 1]

\* A continued streak whose increment is lost (current = current++).
ContinueStreakLostIncrement(s) == s

\* A continued streak that never raises longest.
ContinueStreakNoLongest(s) == [s EXCEPT !.current = s.current + 1]

\* daysDiff === 1: the streak continues.
ContinueStreak(s) ==
    LET c == s.current + 1
    IN  [s EXCEPT !.current = c,
                  !.longest = IF c > s.longest THEN c ELSE s.longest]

\* A broken streak that also forgets the longest one.
BreakStreakResetsLongest(s) == [s EXCEPT !.current = 1, !.longest = 1]

\* A broken streak that restarts at 0.
BreakStreakToZero(s) == [s EXCEPT !.current = 0]

\* daysDiff > 1: the streak is broken.
BreakStreak(s) == [s EXCEPT !.current = 1]

\* Counters that count a second call of the same day as a new day.
StreakCountersSameDayCounts(s, t) ==
    IF s.lastActiveDate # NoDate
    THEN LET daysDiff == DaysDiff(s, t)
         IN  IF daysDiff = 0 \/ daysDiff = 1 THEN ContinueStreak(s)
             ELSE IF daysDiff > 1 THEN BreakStreak(s)
             ELSE s
    ELSE FirstActivity(s)

\* The counters after updateStreak, before lastActiveDate is stamped.
StreakCounters(s, t) ==
    IF s.lastActiveDate # NoDate
    THEN LET daysDiff == DaysDiff(s, t)
         IN  IF daysDiff = 1 THEN ContinueStreak(s)
             ELSE IF daysDiff > 1 THEN BreakStreak(s)
             ELSE s
    ELSE FirstActivity(s)

\* userSchema.methods.updateStreak on document s at wall-clock time t.
UpdateStreak(s, t) ==
    [StreakCounters(s, t) EXCEPT !.lastActiveDate = StartOfDay(t)]

\* A save that writes the whole document back, every path of it.
SaveWholeDocument(stored, loaded, doc) == doc

\* Document.save() of a loaded document: one update that $set-s the paths
\* whose value differs from the loaded one, and leaves every other path of
\* the stored document as it is.
Save(stored, loaded, doc) ==
    [f \in DOMAIN stored |-> IF doc[f] # loaded[f] THEN doc[f] ELSE stored[f]]

----------------------------------------------------------------------------
(* routes: POST /api/user/update-streak, one request at a time *)
(* The user document exists throughout, so findByFirebaseUid finds it and   *)
(* the 404 answer is not given.                                            *)

NoCall ==
    [n |-> 0, hadDate |-> FALSE, daysDiff |-> 0, before |-> FreshStreak,
     consecutive |-> 0]

NoReply == [status |-> 0, streak |-> FreshStreak]

\* The record of a call on document s at time t, after the record c.
CallRecord(c, s, t) ==
    LET had == s.lastActiveDate # NoDate
        dd  == IF had THEN DaysDiff(s, t) ELSE 0
    IN  [n |-> c.n + 1, hadDate |-> had, daysDiff |-> dd, before |-> s,
         consecutive |->
            IF c.n = 0 THEN 1
            ELSE IF c.consecutive > 0 /\ had /\ dd = 1 THEN c.consecutive + 1
            ELSE 0]

\* The wall clock moves forward.
ClockAdvance ==
    /\ \E k \in 1..(2 * MaxJump) :
          /\ now + k * ClockStep <= MaxNow
          /\ now' = now + k * ClockStep
    /\ UNCHANGED <<streak, lastCall, reply, reqs, goals, dash, summary, gres, statVars, userVars, siteVars>>

\* The wall clock is set back (a clock adjustment, a change of time zone).
ClockSetBack ==
    /\ \E k \in 1..(2 * MaxJump) :
          /\ now - k * ClockStep >= 0
          /\ now' = now - k * ClockStep
    /\ UNCHANGED <<streak, lastCall, reply, reqs, goals, dash, summary, gres, statVars, userVars, siteVars>>

\* The handler, run to its response with no other request in between:
\* findByFirebaseUid, user.updateStreak() (which saves), res.json.
UpdateStreakRequest ==
    /\ lastCall.n < MaxCalls
    /\ LET doc == UpdateStreak(streak, now)
       IN  /\ streak' = Save(streak, streak, doc)
           /\ reply' = [status |-> 200, streak |-> doc]
    /\ lastCall' = CallRecord(lastCall, streak, now)
    /\ UNCHANGED <<now, reqs, goals, dash, summary, gres, statVars, userVars, siteVars>>

----------------------------------------------------------------------------
(* routes: POST /api/user/update-streak, requests in flight together *)

Reqs == 1..NumReqs

IdleReq == [pc |-> "idle", loaded |-> FreshStreak, doc |-> FreshStreak, at |-> 0]

\* await User.findByFirebaseUid(req.user.uid): the request holds its own
\* copy of the stored document.
FindUser(r) ==
    /\ reqs[r].pc = "idle"
    /\ reqs' = [reqs EXCEPT ![r] = [pc |-> "found", loaded |-> streak,
                                    doc |-> streak, at |-> 0]]
    /\ UNCHANGED <<now, streak, lastCall, reply, goals, dash, summary, gres, statVars, userVars, siteVars>>

\* user.updateStreak() up to its this.save(): the counters and the date are
\* computed on the request's copy, from the clock as it is now.
RunUpdateStreak(r) ==
    /\ reqs[r].pc = "found"
    /\ reqs' = [reqs EXCEPT ![r].pc = "saving",
                            ![r].doc = UpdateStreak(reqs[r].doc, now),
                            ![r].at = now]
    /\ UNCHANGED <<now, streak, lastCall, reply, goals, dash, summary, gres, statVars, userVars, siteVars>>

\* The save reaches the database; the handler answers.
SaveUser(r) ==
    /\ reqs[r].pc = "saving"
    /\ streak' = Save(streak, reqs[r].loaded, reqs[r].doc)
    /\ reply' = [status |-> 200, streak |-> reqs[r].doc]
    /\ reqs' = [reqs EXCEPT ![r].pc = "done"]
    /\ UNCHANGED <<now, lastCall, goals, dash, summary, gres, statVars, userVars, siteVars>>

AllDone == \A r \in Reqs : reqs[r].pc = "done"

\* The orders in which the requests can be applied one at a time.
Orders == {o \in [Reqs -> Reqs] : \A r \in Reqs : \E i \in Reqs : o[i] = r}

\* The streak after the first i requests of order o, each applied alone to
\* the result of the one before it at the time it read the clock.
RECURSIVE Serial(_, _)
Serial(o, i) ==
    IF i = 0 THEN FreshStreak
    ELSE UpdateStreak(Serial(o, i - 1), reqs[o[i]].at)

SerialOutcomes == {Serial(o, NumReqs) : o \in Orders}

----------------------------------------------------------------------------
(* models/Goal.js and routes: the goals collection *)

GoalIds == 1..NumGoals

Users == {"u1", "u2"}

\* The user whose document the model follows.
Uid == "u1"

\* The enum of goalSchema.category and the enum of goalSchema.priority.
Categories == {"skill", "health", "career", "personal", "finance", "education"}

Priorities == {"low", "medium", "high"}

\* JSON values a request body can carry in its completed field.
JsonBooleans == {"true", "false"}

JsonCompleted == {"true", "false", "\"true\"", "\"false\""}

\* JavaScript truthiness of a JSON value: a string that is not empty is truthy.
Truthy(v) == v \notin {"false", "0", "null", "\"\""}

\* Mongoose's cast of a value to Boolean: 'true', '1', 'yes' and their like
\* are true; 'false', '0', 'no' and their like are false.
CastBoolean(v) == v \in {"true", "\"true\"", "1", "\"1\"", "\"yes\""}

\* A goal id that no document has been created under yet; its fields are
\* the schema defaults.
NoGoal ==
    [state |-> "none", userId |-> "", completed |-> FALSE,
     completedAt |-> NoDate, progress |-> 0, subtasks |-> <<>>,
     deadline |-> 0, category |-> "personal", priority |-> "medium",
     createdAt |-> 0]

\* The ids of the stored goals of user u: the filter { userId }.
GoalsOf(u) == {g \in GoalIds : goals[g].state = "live" /\ goals[g].userId = u}

\* Goal.countDocuments({ userId }).
CountAll(u) == Cardinality(GoalsOf(u))

\* Goal.countDocuments({ userId, completed: c }).
CountCompleted(u, c) == Cardinality({g \in GoalsOf(u) : goals[g].completed = c})

\* goalSchema.pre("save") on document d at time t.
PreSave(d, t) ==
    IF d.completed /\ d.completedAt = NoDate
    THEN [d EXCEPT !.completedAt = t]
    ELSE IF ~d.completed /\ d.completedAt # NoDate
    THEN [d EXCEPT !.completedAt = NoDate]
    ELSE d

\* The deadline validator: value >= new Date().
DeadlineValid(dl, t) == dl >= t

\* The last request to the goals routes: the route, the user who made it,
\* the goal it was about and the status of the response.
GoalReply(op, u, g, st) == [op |-> op, uid |-> u, goal |-> g, status |-> st]

NoGoalReply == GoalReply("none", "", 0, 0)

\* The request bodies of POST /api/goals: every field is given.
CreateBodies(completeds, completedAts, deadlines, categories, priorities) ==
    [userId : Users, completed : completeds, completedAt : completedAts,
     deadline : deadlines, category : categories, priority : priorities]

\* The document new Goal({ ...req.body, userId }) builds, saved at time t.
\* createdAt is the time of the save.
NewGoal(u, body, t) ==
    PreSave([state |-> "live", userId |-> u,
             completed |-> CastBoolean(body.completed),
             completedAt |-> body.completedAt, progress |-> 0,
             subtasks |-> <<>>, deadline |-> body.deadline,
             category |-> body.category, priority |-> body.priority,
             createdAt |-> t], t)

\* POST /api/goals by user u: 403 for a body of another user, 400 for a
\* deadline in the past, else a new document under a fresh id.
CreateGoal(u, body) ==
    /\ \E g \in GoalIds :
          /\ goals[g].state = "none"
          /\ \A h \in GoalIds : h < g => goals[h].state # "none"
          /\ IF body.userId # u
             THEN /\ gres' = GoalReply("create", u, 0, 403)
                  /\ UNCHANGED goals
             ELSE IF ~DeadlineValid(body.deadline, now)
             THEN /\ gres' = GoalReply("create", u, 0, 400)
                  /\ UNCHANGED goals
             ELSE /\ goals' = [goals EXCEPT ![g] = NewGoal(u, body, now)]
                  /\ gres' = GoalReply("create", u, g, 201)
    /\ UNCHANGED <<now, streak, lastCall, reply, reqs, dash, summary,
                   statVars, userVars, siteVars>>

\* The updates object of PUT /api/goals/:id applied to document d at time t:
\* the allowed fields of the body, completedAt and progress from the
\* truthiness of body.completed, each value cast by the schema.
ApplyUpdates(d, body, t) ==
    LET has(f) == f \in DOMAIN body
        d1 == IF has("category") THEN [d EXCEPT !.category = body.category] ELSE d
        d2 == IF has("priority") THEN [d1 EXCEPT !.priority = body.priority] ELSE d1
        d3 == IF has("deadline") THEN [d2 EXCEPT !.deadline = body.deadline] ELSE d2
        d4 == IF has("progress") THEN [d3 EXCEPT !.progress = body.progress] ELSE d3
    IN  IF ~has("completed") THEN d4
        ELSE IF Truthy(body.completed)
        THEN [d4 EXCEPT !.completed = CastBoolean(body.completed),
                        !.completedAt = t, !.progress = 100]
        ELSE [d4 EXCEPT !.completed = CastBoolean(body.completed),
                        !.completedAt = NoDate]

\* runValidators: the validators of the paths the update sets.
UpdatesValid(body, t) ==
    /\ "deadline" \in DOMAIN body => DeadlineValid(body.deadline, t)
    /\ ("progress" \in DOMAIN body
           /\ ~("completed" \in DOMAIN body /\ Truthy(body.completed)))
          => body.progress \in 0..100

\* An ownership check that lets every user through.
AccessUnchecked(g, u) == IF goals[g].state # "live" THEN 404 ELSE 200

\* The answer to a request of user u about goal g before the handler acts:
\* 404 for no such goal, 403 for another user's goal, else 200.
Access(g, u) ==
    IF goals[g].state # "live" THEN 404
    ELSE IF goals[g].userId # u THEN 403
    ELSE 200

\* GET /api/goals/:id by user u.
GetGoal(g, u) ==
    /\ gres' = GoalReply("get", u, g, Access(g, u))
    /\ UNCHANGED <<now, streak, lastCall, reply, reqs, goals, dash, summary,
                   statVars, userVars, siteVars>>

\* PUT /api/goals/:id by user u: 404, 403, 400 for an update that fails
\* validation, else $set of the updates.
PutGoal(g, u, body) ==
    /\ IF Access(g, u) # 200
       THEN /\ gres' = GoalReply("put", u, g, Access(g, u))
            /\ UNCHANGED goals
       ELSE IF ~UpdatesValid(body, now)
       THEN /\ gres' = GoalReply("put", u, g, 400)
            /\ UNCHANGED goals
       ELSE /\ goals' = [goals EXCEPT ![g] = ApplyUpdates(goals[g], body, now)]
            /\ gres' = GoalReply("put", u, g, 200)
    /\ UNCHANGED <<now, streak, lastCall, reply, reqs, dash, summary,
                   statVars, userVars, siteVars>>

\* DELETE /api/goals/:id by user u: 404, 403, else findByIdAndDelete.
DeleteGoal(g, u) ==
    /\ IF Access(g, u) # 200
       THEN UNCHANGED goals
       ELSE goals' = [goals EXCEPT ![g] = [NoGoal EXCEPT !.state = "deleted"]]
    /\ gres' = GoalReply("delete", u, g, Access(g, u))
    /\ UNCHANGED <<now, streak, lastCall, reply, reqs, dash, summary,
                   statVars, userVars, siteVars>>

\* Math.round of the fraction num/den >= 0: the nearest integer, a half
\* rounds up.
RoundDiv(num, den) == (2 * num + den) \div (2 * den)

\* A subtask of a goal: its id and whether it is done.  The ids of the
\* subtasks of one goal are distinct; the id is the place of the subtask.
Subtask(i) == [id |-> i, completed |-> FALSE]

\* The number of the subtasks of d that are done.
CompletedSubtasks(d) ==
    Cardinality({i \in 1..Len(d.subtasks) : d.subtasks[i].completed})

\* document.save() of a goal loaded as g at time t: the pre-save hook, then
\* the write.
SaveGoal(g, d, t) == goals' = [goals EXCEPT ![g] = PreSave(d, t)]

\* The record of a method call on goal g with argument arg.  seq tells a
\* call from the call before it.
MethodCall(name, g, arg) ==
    [name |-> name, goal |-> g, arg |-> arg, seq |-> 1 - call.seq]

NoMethodCall == [name |-> "none", goal |-> 0, arg |-> 0, seq |-> 0]

\* goal.markComplete() on stored goal g.
MarkComplete(g) ==
    /\ goals[g].state = "live"
    /\ call' = MethodCall("markComplete", g, 0)
    /\ SaveGoal(g, [goals[g] EXCEPT !.completed = TRUE, !.completedAt = now,
                                    !.progress = 100], now)
    /\ UNCHANGED <<now, streak, lastCall, reply, reqs, dash, summary, gres,
                   statVars, userVars, docs, inits>>

\* goal.markIncomplete() on stored goal g.
MarkIncomplete(g) ==
    /\ goals[g].state = "live"
    /\ call' = MethodCall("markIncomplete", g, 0)
    /\ SaveGoal(g, [goals[g] EXCEPT !.completed = FALSE,
                                    !.completedAt = NoDate,
                                    !.progress = 0], now)
    /\ UNCHANGED <<now, streak, lastCall, reply, reqs, dash, summary, gres,
                   statVars, userVars, docs, inits>>

\* A progress that is taken as it comes.
NoClamp(progress) == progress

\* Math.min(100, Math.max(0, progress))
Clamp(progress) ==
    IF progress < 0 THEN 0 ELSE IF progress > 100 THEN 100 ELSE progress

\* goal.updateProgress(progress) on stored goal g.
UpdateProgress(g, progress) ==
    /\ goals[g].state = "live"
    /\ call' = MethodCall("updateProgress", g, progress)
    /\ LET d == [goals[g] EXCEPT !.progress = Clamp(progress)]
       IN  SaveGoal(g, IF d.progress = 100
                       THEN [d EXCEPT !.completed = TRUE, !.completedAt = now]
                       ELSE d, now)
    /\ UNCHANGED <<now, streak, lastCall, reply, reqs, dash, summary, gres,
                   statVars, userVars, docs, inits>>

\* POST /api/goals/:id/subtasks by user u: 404, 403, 400 for no title, else
\* goal.addSubtask(title).
AddSubtask(g, u, title) ==
    /\ Len(goals[g].subtasks) < MaxSubtasks
    /\ IF Access(g, u) # 200
       THEN /\ gres' = GoalReply("addSubtask", u, g, Access(g, u))
            /\ UNCHANGED goals
       ELSE IF title = ""
       THEN /\ gres' = GoalReply("addSubtask", u, g, 400)
            /\ UNCHANGED goals
       ELSE /\ SaveGoal(g, [goals[g] EXCEPT !.subtasks =
                   Append(@, Subtask(Len(@) + 1))], now)
            /\ gres' = GoalReply("addSubtask", u, g, 200)
    /\ UNCHANGED <<now, streak, lastCall, reply, reqs, dash, summary,
                   statVars, userVars, siteVars>>

\* goal.toggleSubtask(subtaskId) on document d: the subtask flips and
\* progress is the rounded share of the subtasks that are done.
ToggledSubtask(d, sid) ==
    LET d1 == [d EXCEPT !.subtasks[sid].completed = ~@]
    IN  [d1 EXCEPT !.progress =
            RoundDiv(CompletedSubtasks(d1) * 100, Len(d1.subtasks))]

\* goal.addSubtask(title) on stored goal g.
AddSubtaskTo(g) ==
    /\ goals[g].state = "live"
    /\ Len(goals[g].subtasks) < MaxMethodSubtasks
    /\ call' = MethodCall("addSubtask", g, 0)
    /\ SaveGoal(g, [goals[g] EXCEPT !.subtasks =
           Append(@, Subtask(Len(@) + 1))], now)
    /\ UNCHANGED <<now, streak, lastCall, reply, reqs, dash, summary, gres,
                   statVars, userVars, docs, inits>>

\* goal.toggleSubtask(subtaskId) on stored goal g: it throws for a subtask
\* the goal has not, and nothing is saved.
ToggleSubtaskOf(g, sid) ==
    /\ goals[g].state = "live"
    /\ call' = MethodCall("toggleSubtask", g, sid)
    /\ IF sid \in 1..Len(goals[g].subtasks)
       THEN SaveGoal(g, ToggledSubtask(goals[g], sid), now)
       ELSE UNCHANGED goals
    /\ UNCHANGED <<now, streak, lastCall, reply, reqs, dash, summary, gres,
                   statVars, userVars, docs, inits>>

\* PUT /api/goals/:id/subtasks/:subtaskId by user u: 404, 403, 500 for a
\* subtask the goal has not, else goal.toggleSubtask(subtaskId).
ToggleSubtask(g, u, sid) ==
    /\ IF Access(g, u) # 200
       THEN /\ gres' = GoalReply("toggleSubtask", u, g, Access(g, u))
            /\ UNCHANGED goals
       ELSE IF sid \notin 1..Len(goals[g].subtasks)
       THEN /\ gres' = GoalReply("toggleSubtask", u, g, 500)
            /\ UNCHANGED goals
       ELSE /\ SaveGoal(g, ToggledSubtask(goals[g], sid), now)
            /\ gres' = GoalReply("toggleSubtask", u, g, 200)
    /\ UNCHANGED <<now, streak, lastCall, reply, reqs, dash, summary,
                   statVars, userVars, siteVars>>

----------------------------------------------------------------------------
(* routes: GET /api/stats/dashboard *)

\* totalGoals > 0 ? Math.round((completedGoals / totalGoals) * 100) : 0
CompletionRate(completedGoals, totalGoals) ==
    IF totalGoals > 0 THEN RoundDiv(completedGoals * 100, totalGoals) ELSE 0

\* countDocuments({ userId, completed: false, deadline: { $lt: today } }),
\* and the overdue sum of getStatsByUser, at the instant t.
CountOverdue(u, t) ==
    Cardinality({g \in GoalsOf(u) : ~goals[g].completed /\ goals[g].deadline < t})

\* { $match: { userId } }, { $group: { _id: '$field', count: { $sum: 1 },
\* completed: { $sum: { $cond: ['$completed', 1, 0] } } } }: one entry for
\* each value of the field that a goal of the user has.
GroupBy(u, field) ==
    {[_id |-> k,
      count |-> Cardinality({g \in GoalsOf(u) : goals[g][field] = k}),
      completed |-> Cardinality({g \in GoalsOf(u) :
                        goals[g][field] = k /\ goals[g].completed})] :
        k \in {goals[g][field] : g \in GoalsOf(u)}}

IdleDash ==
    [pc |-> "idle", uid |-> "", total |-> 0, completed |-> 0, active |-> 0,
     completionRate |-> 0, at |-> 0, overdue |-> 0, byPriority |-> {},
     byCategory |-> {}]

NoSummary ==
    [sent |-> FALSE, uid |-> "", total |-> 0, completed |-> 0, active |-> 0,
     completionRate |-> 0, at |-> 0, overdue |-> 0, byPriority |-> {},
     byCategory |-> {}]

\* A dashboard request of user u arrives; the response to the request
\* before it is dropped.
\* const totalGoals = await Goal.countDocuments({ userId })
DashCountTotal(u) ==
    /\ dash.pc = "idle"
    /\ dash' = [IdleDash EXCEPT !.pc = "total", !.uid = u,
                                !.total = CountAll(u)]
    /\ summary' = NoSummary
    /\ UNCHANGED <<now, streak, lastCall, reply, reqs, goals, gres, statVars,
                   userVars, siteVars>>

\* const completedGoals = await Goal.countDocuments({ userId, completed: true })
DashCountCompleted ==
    /\ dash.pc = "total"
    /\ dash' = [dash EXCEPT !.pc = "completed",
                            !.completed = CountCompleted(dash.uid, TRUE)]
    /\ UNCHANGED <<now, streak, lastCall, reply, reqs, goals, summary, gres,
                   statVars, userVars, siteVars>>

\* const activeGoals = await Goal.countDocuments({ userId, completed: false }),
\* then the completion rate from the first two counts.
DashCountActive ==
    /\ dash.pc = "completed"
    /\ dash' = [dash EXCEPT !.pc = "active",
                            !.active = CountCompleted(dash.uid, FALSE),
                            !.completionRate =
                                CompletionRate(dash.completed, dash.total)]
    /\ UNCHANGED <<now, streak, lastCall, reply, reqs, goals, summary, gres,
                   statVars, userVars, siteVars>>

\* const today = new Date(); const overdueGoals = await Goal.countDocuments(
\* { userId, completed: false, deadline: { $lt: today } })
DashCountOverdue ==
    /\ dash.pc = "active"
    /\ dash' = [dash EXCEPT !.pc = "overdue", !.at = now,
                            !.overdue = CountOverdue(dash.uid, now)]
    /\ UNCHANGED <<now, streak, lastCall, reply, reqs, goals, summary, gres,
                   statVars, userVars, siteVars>>

\* const priorityStats = await Goal.aggregate([...])
DashPriorityStats ==
    /\ dash.pc = "overdue"
    /\ dash' = [dash EXCEPT !.pc = "priority",
                            !.byPriority = GroupBy(dash.uid, "priority")]
    /\ UNCHANGED <<now, streak, lastCall, reply, reqs, goals, summary, gres,
                   statVars, userVars, siteVars>>

\* const categoryStats = await Goal.aggregate([...])
DashCategoryStats ==
    /\ dash.pc = "priority"
    /\ dash' = [dash EXCEPT !.pc = "category",
                            !.byCategory = GroupBy(dash.uid, "category")]
    /\ UNCHANGED <<now, streak, lastCall, reply, reqs, goals, summary, gres,
                   statVars, userVars, siteVars>>

\* res.json({ summary: { total, completed, active, overdue, completionRate },
\* byPriority, byCategory, ... }); the recent activity is left out.
DashRespond ==
    /\ dash.pc = "category"
    /\ summary' = [sent |-> TRUE, uid |-> dash.uid, total |-> dash.total,
                   completed |-> dash.completed, active |-> dash.active,
                   completionRate |-> dash.completionRate, at |-> dash.at,
                   overdue |-> dash.overdue, byPriority |-> dash.byPriority,
                   byCategory |-> dash.byCategory]
    /\ dash' = IdleDash
    /\ UNCHANGED <<now, streak, lastCall, reply, reqs, goals, gres, statVars,
                   userVars, siteVars>>

----------------------------------------------------------------------------
(* models/Goal.js: getStatsByUser, getStatsByCategory; routes: GET         *)
(* /api/goals/stats/overview                                               *)

\* The aggregation operator $round to 0 places, of num/den >= 0: the nearest
\* integer, and a half rounds to the even neighbour.
RoundHalfEven(num, den) ==
    LET q == num \div den
        r == num % den
    IN  IF 2 * r < den THEN q
        ELSE IF 2 * r > den THEN q + 1
        ELSE IF q % 2 = 0 THEN q ELSE q + 1

\* $round: [{ $multiply: [{ $divide: ['$completed', '$total'] }, 100] }, 0]
Percentage(completed, total) == RoundHalfEven(completed * 100, total)

\* getStatsByUser(userId) at the instant t: one $group over the goals of
\* the user, or the zero record for a user without goals.
StatsByUser(u, t) ==
    [total |-> CountAll(u), completed |-> CountCompleted(u, TRUE),
     overdue |-> CountOverdue(u, t)]

\* getStatsByCategory(userId): $match, $group by category, $project.
StatsByCategory(u) ==
    {[_id |-> e._id, category |-> e._id, total |-> e.count,
      completed |-> e.completed,
      percentage |-> Percentage(e.completed, e.count)] :
        e \in GroupBy(u, "category")}

NoOverview ==
    [pc |-> "idle", sent |-> FALSE, uid |-> "", at |-> 0,
     stats |-> [total |-> 0, completed |-> 0, overdue |-> 0],
     categories |-> {}]

\* const stats = await Goal.getStatsByUser(userId)
OverviewStats(u) ==
    /\ overview.pc = "idle"
    /\ overview' = [NoOverview EXCEPT !.pc = "stats", !.uid = u, !.at = now,
                                      !.stats = StatsByUser(u, now)]
    /\ UNCHANGED <<now, streak, lastCall, reply, reqs, goals, dash, summary,
                   gres, series, pct, userVars, siteVars>>

\* const categoryStats = await Goal.getStatsByCategory(userId); res.json
\* ({ overview: stats, categories: categoryStats, ... }); the recent goals
\* are left out.
OverviewRespond ==
    /\ overview.pc = "stats"
    /\ overview' = [overview EXCEPT !.pc = "idle", !.sent = TRUE,
                       !.categories = StatsByCategory(overview.uid)]
    /\ UNCHANGED <<now, streak, lastCall, reply, reqs, goals, dash, summary,
                   gres, series, pct, userVars, siteVars>>

\* The $project stage of getStatsByCategory on one group, on its own.
NoPct == [completed |-> 0, total |-> 1, done |-> FALSE, percentage |-> 0]

PctInputs ==
    {[NoPct EXCEPT !.completed = c, !.total = n] :
        n \in 1..MaxCount, c \in 0..MaxCount}

ProjectPercentage ==
    /\ ~pct.done
    /\ pct.completed <= pct.total
    /\ pct' = [pct EXCEPT !.done = TRUE,
                          !.percentage = Percentage(pct.completed, pct.total)]
    /\ UNCHANGED <<now, streak, lastCall, reply, reqs, goals, dash, summary,
                   gres, series, overview, userVars, siteVars>>

----------------------------------------------------------------------------
(* models/User.js and routes: the other handlers of /api/user *)

\* The paths of the user document other than the streak, as createFromFirebase
\* leaves them.
FreshUser ==
    [status |-> "active", lastLogin |-> 0, displayName |-> "",
     totalGoals |-> 0, completedGoals |-> 0, createdAt |-> 0,
     updatedAt |-> 0]

\* The user document: the streak paths and the other paths together.
UserDoc(s, o) ==
    [current |-> s.current, longest |-> s.longest,
     lastActiveDate |-> s.lastActiveDate,
     status |-> o.status, lastLogin |-> o.lastLogin,
     displayName |-> o.displayName, totalGoals |-> o.totalGoals,
     completedGoals |-> o.completedGoals, createdAt |-> o.createdAt,
     updatedAt |-> o.updatedAt]

\* The streak paths of user document d.
StreakOf(d) ==
    [current |-> d.current, longest |-> d.longest,
     lastActiveDate |-> d.lastActiveDate]

\* The other paths of user document d.
RestOf(d) ==
    [status |-> d.status, lastLogin |-> d.lastLogin,
     displayName |-> d.displayName, totalGoals |-> d.totalGoals,
     completedGoals |-> d.completedGoals, createdAt |-> d.createdAt,
     updatedAt |-> d.updatedAt]

\* The handlers that load the user, change it and save it.
UserHandlers == {"initialize", "profile", "updateStats", "account"}

\* The bodies of PUT /api/user/profile: a profile with a display name, or a
\* body whose only field is one the route does not take.
ProfileBodies ==
    {[profile |-> [displayName |-> "n"]],
     [streak |-> [current |-> 9, longest |-> 9, lastActiveDate |-> NoDate]]}

\* The handler in flight, or the last one: its place, its route, its body,
\* the document it loaded, and whether the stored streak had moved on from
\* the loaded one when it saved.
IdleOp ==
    [pc |-> "idle", kind |-> "", body |-> [none |-> 0],
     loaded |-> UserDoc(FreshStreak, FreshUser), stale |-> FALSE]

\* const user = await User.findByFirebaseUid(uid) of handler kind, whose
\* request body is body.
FindUserFor(kind, body) ==
    /\ ops.pc = "idle"
    /\ ops' = [pc |-> "found", kind |-> kind, body |-> body,
               loaded |-> UserDoc(streak, user), stale |-> FALSE]
    /\ UNCHANGED <<now, streak, lastCall, reply, reqs, goals, dash, summary,
                   gres, statVars, user, siteVars>>

\* What the handler of kind k does to its copy d of the user at time t,
\* before the save:
\*   initialize   user.lastLogin = new Date()
\*   profile      Object.assign(user[field], req.body[field]) for the fields
\*                profile and preferences of the body
\*   updateStats  stats.totalGoals, stats.completedGoals from getStatsByUser
\*   account      user.status = 'deleted'
Changed(k, body, d, t) ==
    CASE k = "initialize" -> [d EXCEPT !.lastLogin = t]
      [] k = "profile" ->
            IF "profile" \in DOMAIN body
            THEN [d EXCEPT !.displayName = body.profile.displayName]
            ELSE d
      [] k = "updateStats" ->
            [d EXCEPT !.totalGoals = StatsByUser(Uid, t).total,
                      !.completedGoals = StatsByUser(Uid, t).completed]
      [] k = "account" -> [d EXCEPT !.status = "deleted"]

\* timestamps: true: a save of a document that was changed sets updatedAt
\* to the time of the save.
Stamped(loaded, doc, t) ==
    IF doc # loaded THEN [doc EXCEPT !.updatedAt = t] ELSE doc

\* The handler changes its copy and saves it, and answers; the account
\* deletion has the goals of the user to delete before it answers.
SaveUserFor ==
    /\ ops.pc = "found"
    /\ LET doc == Changed(ops.kind, ops.body, ops.loaded, now)
           written == Save(UserDoc(streak, user), ops.loaded,
                           Stamped(ops.loaded, doc, now))
       IN  /\ streak' = StreakOf(written)
           /\ user' = RestOf(written)
    /\ ops' = [ops EXCEPT !.pc = IF ops.kind = "account" THEN "saved"
                                 ELSE "idle",
                           !.stale = (StreakOf(ops.loaded) # streak)]
    /\ UNCHANGED <<now, lastCall, reply, reqs, goals, dash, summary, gres,
                   statVars, siteVars>>

\* Goal.deleteMany({ userId: u }): the collection without the goals of u.
DeleteMany(u) ==
    [g \in GoalIds |->
        IF g \in GoalsOf(u) THEN [NoGoal EXCEPT !.state = "deleted"]
        ELSE goals[g]]

\* await Goal.deleteMany({ userId: req.user.uid }) of DELETE /api/user/account.
DeleteGoalsFor ==
    /\ ops.pc = "saved"
    /\ goals' = DeleteMany(Uid)
    /\ ops' = [ops EXCEPT !.pc = "purged"]
    /\ UNCHANGED <<now, streak, lastCall, reply, reqs, dash, summary, gres,
                   statVars, user, siteVars>>

\* res.json({ message: 'Account deleted successfully' })
AccountRespond ==
    /\ ops.pc = "purged"
    /\ ops' = [ops EXCEPT !.pc = "idle"]
    /\ UNCHANGED <<now, streak, lastCall, reply, reqs, goals, dash, summary,
                   gres, statVars, user, siteVars>>

\* A collection that lets every document in.
NoUniqueIndex(n) == TRUE

\* firebaseUid unique: true.  A document is let into a collection that
\* holds n documents of its uid when n is 0.
UniqueIndex(n) == n = 0

IdleInit ==
    [pc |-> "idle", found |-> FALSE,
     loaded |-> UserDoc(FreshStreak, FreshUser), status |-> 0]

\* let user = await User.findByFirebaseUid(uid)
InitFind(r) ==
    /\ inits[r].pc \in {"idle", "done"}
    /\ inits' = [inits EXCEPT ![r] =
                    [pc |-> "found", found |-> docs > 0,
                     loaded |-> UserDoc(streak, user), status |-> 0]]
    /\ UNCHANGED <<now, streak, lastCall, reply, reqs, goals, dash, summary,
                   gres, statVars, userVars, call, docs>>

\* The document User.createFromFirebase creates at time t.
NewUser(t) ==
    [FreshUser EXCEPT !.lastLogin = t, !.createdAt = t, !.updatedAt = t]

\* The rest of the handler.  A user that was found: lastLogin = new Date(),
\* save, 200.  No user found: createFromFirebase, 201, or 500 when the
\* unique index refuses the document.
InitWrite(r) ==
    /\ inits[r].pc = "found"
    /\ IF inits[r].found
       THEN LET doc == [inits[r].loaded EXCEPT !.lastLogin = now]
                written == Save(UserDoc(streak, user), inits[r].loaded,
                                Stamped(inits[r].loaded, doc, now))
            IN  /\ streak' = StreakOf(written)
                /\ user' = RestOf(written)
                /\ docs' = docs
                /\ inits' = [inits EXCEPT ![r].pc = "done", ![r].status = 200]
       ELSE IF UniqueIndex(docs)
       THEN /\ streak' = FreshStreak
            /\ user' = NewUser(now)
            /\ docs' = docs + 1
            /\ inits' = [inits EXCEPT ![r].pc = "done", ![r].status = 201]
       ELSE /\ UNCHANGED <<streak, user, docs>>
            /\ inits' = [inits EXCEPT ![r].pc = "done", ![r].status = 500]
    /\ UNCHANGED <<now, lastCall, reply, reqs, goals, dash, summary, gres,
                   statVars, ops, call>>

----------------------------------------------------------------------------
(* routes: GET /api/stats/progress *)

\* The days of the periods of the route; any other period is 30 days.
WindowDays(period) ==
    CASE period = "7d" -> 7
      [] period = "30d" -> 30
      [] period = "90d" -> 90
      [] period = "1y" -> 365
      [] OTHER -> 30

\* startDate: the instant t moved back by the period.
StartDate(t, period) == t - WindowDays(period) * MsPerDay

\* { $match: { userId, createdAt: { $gte: startDate } } }
InWindow(u, start) == {g \in GoalsOf(u) : goals[g].createdAt >= start}

\* $dateToString with format '%Y-%m-%d': the calendar day of createdAt.  The
\* day is held as its number; the order of the strings is the order of the
\* days.
DateKey(g) == DayOf(goals[g].createdAt)

\* The sequence of the numbers of S in ascending order: { $sort: { _id: 1 } }.
RECURSIVE Ascending(_)
Ascending(S) ==
    IF S = {} THEN <<>>
    ELSE LET m == CHOOSE x \in S : \A y \in S : x <= y
         IN  <<m>> \o Ascending(S \ {m})

\* A group that counts a completed goal on the day it was completed.
DayGroupByCompletionDay(G, d) ==
    [_id |-> d,
     created |-> Cardinality({g \in G : DateKey(g) = d}),
     completed |-> Cardinality({g \in G :
                       goals[g].completed /\ DayOf(goals[g].completedAt) = d})]

\* The $group of one day d over the matched goals G: created counts every
\* goal of the day, completed those of them that are completed now.
DayGroup(G, d) ==
    [_id |-> d,
     created |-> Cardinality({g \in G : DateKey(g) = d}),
     completed |-> Cardinality({g \in G : DateKey(g) = d /\ goals[g].completed})]

\* An aggregate that emits its groups in descending order.
ProgressDataDescending(G) ==
    LET days == Ascending({DateKey(g) : g \in G})
    IN  [i \in 1..Len(days) |-> DayGroup(G, days[Len(days) + 1 - i])]

\* progressData: $match, $group by day, $sort ascending.
ProgressData(G) ==
    LET days == Ascending({DateKey(g) : g \in G})
    IN  [i \in 1..Len(days) |-> DayGroup(G, days[i])]

\* Sums of the day's counts alone, not running sums.
CumulativeProgressPerDay(data) ==
    [i \in 1..Len(data) |->
        [date |-> data[i]._id, total |-> data[i].created,
         completed |-> data[i].completed,
         completionRate |-> CompletionRate(data[i].completed, data[i].created)]]

\* The sum of field f over the first i entries of data.
RECURSIVE SumTo(_, _, _)
SumTo(data, f, i) == IF i = 0 THEN 0 ELSE SumTo(data, f, i - 1) + data[i][f]

\* cumulativeProgress: progressData.map with the two running sums.
CumulativeProgress(data) ==
    [i \in 1..Len(data) |->
        LET cumulativeTotal == SumTo(data, "created", i)
            cumulativeCompleted == SumTo(data, "completed", i)
        IN  [date |-> data[i]._id, total |-> cumulativeTotal,
             completed |-> cumulativeCompleted,
             completionRate |->
                 CompletionRate(cumulativeCompleted, cumulativeTotal)]]

NoSeries ==
    [sent |-> FALSE, uid |-> "", period |-> "", at |-> 0, matched |-> {},
     data |-> <<>>, progress |-> <<>>]

\* GET /api/stats/progress?period=... by user u, who holds no response of
\* the route: the aggregate, the map and the response.  matched and data are the handler's own; the response
\* carries period and progress.
ProgressRequest(u, period) ==
    /\ ~series.sent
    /\ LET G == InWindow(u, StartDate(now, period))
           data == ProgressData(G)
       IN  series' = [sent |-> TRUE, uid |-> u, period |-> period, at |-> now,
                      matched |-> G, data |-> data,
                      progress |-> CumulativeProgress(data)]
    /\ UNCHANGED <<now, streak, lastCall, reply, reqs, goals, dash, summary,
                   gres, pct, overview, userVars, siteVars>>

\* The client is done with the response it holds.
DropProgress ==
    /\ series.sent
    /\ series' = NoSeries
    /\ UNCHANGED <<now, streak, lastCall, reply, reqs, goals, dash, summary,
                   gres, pct, overview, userVars, siteVars>>

\* The wall clock moves forward to one of the instants T.
ClockTo(T) ==
    /\ \E t \in T : t > now /\ now' = t
    /\ UNCHANGED <<streak, lastCall, reply, reqs, goals, dash, summary, gres,
                   statVars, userVars, siteVars>>

----------------------------------------------------------------------------
(* The specifications *)

\* The state with n user documents of uid Uid.
Start(n) ==
    /\ now = 0
    /\ streak = FreshStreak
    /\ lastCall = NoCall
    /\ reply = NoReply
    /\ reqs = [r \in Reqs |-> IdleReq]
    /\ goals = [g \in GoalIds |-> NoGoal]
    /\ dash = IdleDash
    /\ summary = NoSummary
    /\ gres = NoGoalReply
    /\ series = NoSeries
    /\ pct = NoPct
    /\ overview = NoOverview
    /\ user = FreshUser
    /\ ops = IdleOp
    /\ call = NoMethodCall
    /\ docs = n
    /\ inits = [r \in Reqs |-> IdleInit]

\* The user has been created.
Init == Start(1)

\* No user has been created.
InitNoUser == Start(0)

\* updateStreak calls one after the other, on any days.
NextStreak ==
    \/ ClockAdvance
    \/ ClockSetBack
    \/ UpdateStreakRequest

SpecStreak == Init /\ [][NextStreak]_vars

\* update-streak requests of one user in flight together.
NextRace ==
    \/ ClockAdvance
    \/ \E r \in Reqs : FindUser(r)
    \/ \E r \in Reqs : RunUpdateStreak(r)
    \/ \E r \in Reqs : SaveUser(r)

SpecRace == Init /\ [][NextRace]_vars

\* The request bodies of the dashboard specification: goals without a
\* deadline to pass, of one category and one priority.
DashCreates == CreateBodies(JsonBooleans, {NoDate}, {0}, {"personal"}, {"medium"})

DashPuts == [completed : JsonBooleans]

\* Dashboard requests while goals are created, updated and deleted.
NextDash ==
    \/ \E u \in Users, b \in DashCreates : CreateGoal(u, b)
    \/ \E g \in GoalIds, u \in Users, b \in DashPuts : PutGoal(g, u, b)
    \/ \E g \in GoalIds, u \in Users : DeleteGoal(g, u)
    \/ \E u \in Users : DashCountTotal(u)
    \/ DashCountCompleted
    \/ DashCountActive
    \/ DashCountOverdue
    \/ DashPriorityStats
    \/ DashCategoryStats
    \/ DashRespond

SpecDash == Init /\ [][NextDash]_vars

\* The instants the clock is read at while goals fall due.
OverdueInstants == {ClockStep, MsPerDay}

\* Goals that are due at the first of the instants.
OverdueCreates ==
    CreateBodies(JsonBooleans, {NoDate}, {ClockStep}, {"personal"}, {"medium"})

\* Dashboard requests while the clock passes the deadlines of
\* the goals and the goals are completed and reopened.
NextOverdue ==
    \/ ClockTo(OverdueInstants)
    \/ \E b \in OverdueCreates : CreateGoal(b.userId, b)
    \/ \E g \in GoalIds, b \in DashPuts : PutGoal(g, goals[g].userId, b)
    \/ \E u \in Users : DashCountTotal(u)
    \/ DashCountCompleted
    \/ DashCountActive
    \/ DashCountOverdue
    \/ DashPriorityStats
    \/ DashCategoryStats
    \/ DashRespond

SpecOverdue == Init /\ [][NextOverdue]_vars

\* Goals of two categories.
OverviewCreates ==
    CreateBodies(JsonBooleans, {NoDate}, {0}, {"health", "career"}, {"medium"})

\* Overview requests while goals are created, updated and deleted.
NextOverview ==
    \/ \E b \in OverviewCreates : CreateGoal(b.userId, b)
    \/ \E g \in GoalIds, b \in DashPuts : PutGoal(g, goals[g].userId, b)
    \/ \E g \in GoalIds : DeleteGoal(g, goals[g].userId)
    \/ \E u \in Users : OverviewStats(u)
    \/ OverviewRespond

SpecOverview == Init /\ [][NextOverview]_vars

\* The instants the clock is read at the start of the window and a
\* window later.
ProgressInstants ==
    {k * ClockStep : k \in 1..MaxLate}
        \cup {WindowDays("7d") * MsPerDay + k * ClockStep : k \in 0..MaxLate}

LastInstant == WindowDays("7d") * MsPerDay + MaxLate * ClockStep

\* Goals whose deadline does not pass.
ProgressCreates ==
    CreateBodies({"false"}, {NoDate}, {LastInstant}, {"personal"}, {"medium"})

\* A goal is completed, or reopened with its progress set back.
ProgressPuts ==
    {[completed |-> "true"], [completed |-> "false", progress |-> 0]}

\* The period of the requests: the window of 7 days.
Periods == {"7d"}

\* Progress requests while the days pass and goals are created, completed
\* and reopened by their owners.  The request is one step, so the other
\* requests are taken up again when the client is done with its response.
NextProgress ==
    \/ ~series.sent /\ ClockTo(ProgressInstants)
    \/ ~series.sent /\ \E b \in ProgressCreates : CreateGoal(b.userId, b)
    \/ ~series.sent /\ \E g \in GoalIds, b \in ProgressPuts :
          goals[g].state = "live" /\ PutGoal(g, goals[g].userId, b)
    \/ \E u \in Users, period \in Periods : ProgressRequest(u, period)
    \/ DropProgress

SpecProgress == Init /\ [][NextProgress]_vars

\* Bodies of POST /api/goals with completed as a JSON boolean or as a
\* string, with and without a completedAt of their own.
GoalCreates ==
    CreateBodies(JsonCompleted, {NoDate, 0}, {0}, {"personal"}, {"medium"})

\* Bodies of PUT /api/goals/:id: completed as a JSON boolean or as a string,
\* or progress alone.
GoalPuts == [completed : JsonCompleted] \cup [progress : {50, 100}]

\* The values updateProgress is called with.
ProgressValues == {50, 150}

SubtaskTitles == {"", "t"}

\* The operations on goals, each by the owner of the goal.
NextGoal ==
    \/ \E b \in GoalCreates : CreateGoal(b.userId, b)
    \/ \E g \in GoalIds, b \in GoalPuts : PutGoal(g, goals[g].userId, b)
    \/ \E g \in GoalIds : MarkComplete(g)
    \/ \E g \in GoalIds : MarkIncomplete(g)
    \/ \E g \in GoalIds, v \in ProgressValues : UpdateProgress(g, v)
    \/ \E g \in GoalIds, t \in SubtaskTitles : AddSubtask(g, goals[g].userId, t)
    \/ \E g \in GoalIds, i \in 1..MaxSubtasks :
          ToggleSubtask(g, goals[g].userId, i)

SpecGoal == Init /\ [][NextGoal]_vars

\* Bodies of POST /api/goals that name user Uid: the goals are Uid's.
AccessCreates ==
    {b \in CreateBodies({"false"}, {NoDate}, {0}, {"personal"}, {"medium"}) :
        b.userId = Uid}

\* Bodies of PUT /api/goals/:id that name a user of their own.
AccessPuts == [userId : Users, priority : {"high"}]

\* The requests to the goals routes, each by any user about any goal.
NextAccess ==
    \/ \E u \in Users, b \in AccessCreates : CreateGoal(u, b)
    \/ \E g \in GoalIds, u \in Users : GetGoal(g, u)
    \/ \E g \in GoalIds, u \in Users, b \in AccessPuts : PutGoal(g, u, b)
    \/ \E g \in GoalIds, u \in Users : DeleteGoal(g, u)
    \/ \E g \in GoalIds, u \in Users, t \in SubtaskTitles : AddSubtask(g, u, t)
    \/ \E g \in GoalIds, u \in Users, i \in 1..MaxSubtasks :
          ToggleSubtask(g, u, i)

SpecAccess == Init /\ [][NextAccess]_vars

\* The instants the clock is read at while the user is active.
UserInstants == {MsPerDay}

\* A goal of user Uid for updateStats to count.
UserCreates ==
    {b \in CreateBodies({"true"}, {NoDate}, {MsPerDay}, {"personal"}, {"medium"}) :
        b.userId = Uid}

\* The bodies of the user handlers: PUT /api/user/profile has one.
UserBodies(kind) == IF kind = "profile" THEN ProfileBodies ELSE {[none |-> 0]}

\* update-streak requests of user Uid between the load and the save of the
\* other handlers of the user.
NextUser ==
    \/ ClockTo(UserInstants)
    \/ \E b \in UserCreates : CreateGoal(Uid, b)
    \/ UpdateStreakRequest
    \/ \E kind \in UserHandlers :
          \E body \in UserBodies(kind) : FindUserFor(kind, body)
    \/ SaveUserFor
    \/ DeleteGoalsFor
    \/ AccountRespond

SpecUser == Init /\ [][NextUser]_vars

\* The values updateProgress is called with: below, within and above the
\* range.
ProgressArgs == {-5, 0, 50, 100, 150}

\* The methods of one goal document, called in any order.
NextMethods ==
    \/ /\ \A g \in GoalIds : goals[g].state = "none"
       /\ \E b \in DashCreates : CreateGoal(b.userId, b)
    \/ \E g \in GoalIds : MarkComplete(g)
    \/ \E g \in GoalIds : MarkIncomplete(g)
    \/ \E g \in GoalIds, v \in ProgressArgs : UpdateProgress(g, v)
    \/ \E g \in GoalIds : AddSubtaskTo(g)
    \/ \E g \in GoalIds, i \in 1..MaxMethodSubtasks : ToggleSubtaskOf(g, i)

SpecMethods == Init /\ [][NextMethods]_vars

\* Initialize requests of uid Uid in flight together, from a collection
\* without the user.
NextInit ==
    \/ ClockTo(UserInstants)
    \/ \E r \in Reqs : InitFind(r)
    \/ \E r \in Reqs : InitWrite(r)

SpecInit == InitNoUser /\ [][NextInit]_vars

\* Goals of the one or the other user.
AccountCreates ==
    CreateBodies({"false"}, {NoDate}, {0}, {"personal"}, {"medium"})

\* The account deletion of user Uid while goals are created.
NextAccount ==
    \/ ClockTo(UserInstants)
    \/ \E b \in AccountCreates : CreateGoal(b.userId, b)
    \/ FindUserFor("account", [none |-> 0])
    \/ SaveUserFor
    \/ DeleteGoalsFor
    \/ AccountRespond

SpecAccount == Init /\ [][NextAccount]_vars

\* A group of total goals of which completed are completed reaches the
\* $project stage of getStatsByCategory.
GroupArrives(p) ==
    /\ pct = NoPct
    /\ p.completed <= p.total
    /\ pct' = p
    /\ UNCHANGED <<now, streak, lastCall, reply, reqs, goals, dash, summary,
                   gres, series, overview, userVars, siteVars>>

\* The percentage of getStatsByCategory on every group of up to MaxCount
\* goals.
NextPct ==
    \/ \E p \in PctInputs : GroupArrives(p)
    \/ ProjectPercentage

SpecPct == Init /\ [][NextPct]_vars


----------------------------------------------------------------------------
(* The streak: properties of updateStreak calls made one after the other *)

\* The step is an updateStreak call.
Called == lastCall'.n = lastCall.n + 1

\* The step is an updateStreak call on a document whose lastActiveDate is
\* set, and daysDiff is in D.
CalledWithDiff(D) == Called /\ lastCall'.hadDate /\ lastCall'.daysDiff \in D

Max(a, b) == IF a >= b THEN a ELSE b

\* C1: in every state reached from a freshly created user by updateStreak
\* calls on any days, longest >= current, in the stored streak and in the
\* streak the handler answers with.
C1_LongestAtLeastCurrent ==
    /\ streak.longest >= streak.current
    /\ reply.streak.longest >= reply.streak.current

\* A streak of at least two days was broken and a new one is running.
C1_Witness ==
    /\ lastCall.n >= 3
    /\ streak.current >= 1
    /\ streak.longest > streak.current

\* C2: an updateStreak call on a day that is not before the day of the call
\* before it never decreases longest.
C2_LongestNeverDecreases ==
    [][(Called /\ (lastCall'.hadDate => lastCall'.daysDiff >= 0))
          => streak'.longest >= streak.longest]_vars

\* A call after a gap left a longest streak of two days or more as it was.
C2_Witness ==
    /\ lastCall.hadDate
    /\ lastCall.daysDiff > 1
    /\ lastCall.before.longest >= 2
    /\ streak.longest = lastCall.before.longest

\* C3: an updateStreak call on a day before lastActiveDate (daysDiff < 0) is
\* answered with an error and leaves current, longest and lastActiveDate
\* as they were.
C3_OutOfOrderRejected ==
    [][CalledWithDiff(-MaxDay..-1)
          => (reply'.status # 200 /\ streak' = streak)]_vars

\* C5: a second updateStreak call on the day of lastActiveDate (daysDiff = 0)
\* leaves current and longest as they were and stamps lastActiveDate with
\* that same day.
C5_SameDayIdempotent ==
    [][CalledWithDiff({0})
          => /\ streak'.current = streak.current
             /\ streak'.longest = streak.longest
             /\ streak'.lastActiveDate = StartOfDay(now)
             /\ DayOf(streak'.lastActiveDate) = DayOf(streak.lastActiveDate)
             /\ reply'.streak = streak']_vars

\* A second call later on the same day, with a streak of two days or more.
C5_Witness ==
    /\ lastCall.hadDate
    /\ lastCall.daysDiff = 0
    /\ now # streak.lastActiveDate
    /\ streak.current >= 2
    /\ streak.current = lastCall.before.current

\* C6: an updateStreak call one day after lastActiveDate (daysDiff = 1) adds
\* 1 to current, makes longest the larger of longest and the new current and
\* lastActiveDate today; and the k-th of k calls on k consecutive days from a
\* fresh user leaves current = k and longest = k.
C6_ContiguousDay ==
    [][/\ CalledWithDiff({1})
          => /\ streak'.current = streak.current + 1
             /\ streak'.longest = Max(streak.longest, streak.current + 1)
             /\ streak'.lastActiveDate = StartOfDay(now)
             /\ DayOf(streak'.lastActiveDate) = DayOf(streak.lastActiveDate) + 1
       /\ (Called /\ lastCall'.consecutive > 0)
          => /\ streak'.current = lastCall'.consecutive
             /\ streak'.longest = lastCall'.consecutive]_vars

\* Three calls on three consecutive days from a fresh user.
C6_Witness ==
    /\ lastCall.n = 3
    /\ lastCall.consecutive = 3
    /\ lastCall.daysDiff = 1
    /\ streak.current = 3

\* C7: an updateStreak call more than one day after lastActiveDate
\* (daysDiff > 1) resets current to 1, keeps longest and makes lastActiveDate
\* today.
C7_BreakAndRestart ==
    [][CalledWithDiff(2..(MaxDay + 1))
          => /\ streak'.current = 1
             /\ streak'.longest = streak.longest
             /\ streak'.lastActiveDate = StartOfDay(now)]_vars

\* A streak of three days is broken by a call three days later.
C7_Witness ==
    /\ lastCall.hadDate
    /\ lastCall.daysDiff = 3
    /\ lastCall.before.current = 3
    /\ streak.current = 1
    /\ streak.longest = 3

----------------------------------------------------------------------------
(* The streak: update-streak requests in flight together *)

\* C4: when the update-streak requests of a user have all been answered, the
\* stored streak is the result of applying them one at a time (in event
\* order, hence in some order), each at the time it read the clock.
C4_SerialEquivalent == AllDone => streak \in SerialOutcomes

----------------------------------------------------------------------------
(* The dashboard summary *)

\* C9: every dashboard summary has active = total - completed, also when
\* goals change between the three count queries.
C9_ActiveIsTotalMinusCompleted ==
    summary.sent => summary.active = summary.total - summary.completed

\* C10: every dashboard summary has completionRate = round(completed / total
\* x 100) for total > 0 and 0 for total = 0, and 0 <= completionRate <= 100.
C10_CompletionRate ==
    summary.sent =>
        /\ summary.total = 0 => summary.completionRate = 0
        /\ summary.total > 0 =>
              LET d == 200 * summary.completed
                        - 2 * summary.completionRate * summary.total
              IN  -summary.total <= d /\ d < summary.total
        /\ summary.completionRate \in 0..100

----------------------------------------------------------------------------
(* The statistics: properties of the dashboard and overview responses *)

\* C11: the overdue count is the number of the user's goals that are not
\* completed and whose deadline is strictly before the instant of the
\* count, so in every dashboard response overdue <= active.
C11_OverdueAtMostActive ==
    summary.sent => summary.overdue <= summary.active

\* C12: the percentage of every group is completed/total x 100 rounded to
\* the nearest integer with a half rounded up (1 of 8 gives 13), for every
\* 0 <= completed <= total, total >= 1.
C12_PercentageRoundsHalfUp ==
    pct.done => pct.percentage = RoundDiv(pct.completed * 100, pct.total)

\* The sum of field f over the records of the set S.
RECURSIVE SumOver(_, _)
SumOver(S, f) ==
    IF S = {} THEN 0
    ELSE LET e == CHOOSE x \in S : TRUE
         IN  e[f] + SumOver(S \ {e}, f)

\* C13: the category breakdown of an overview response has one entry for
\* each category of the user's goals and none for a category without goals,
\* each entry counts the goals of its category and the completed ones among
\* them, so the counts sum to the total of the response and the completed
\* values to its completed count.
C13_CategoryBreakdownSums ==
    overview.sent =>
        /\ \A e1, e2 \in overview.categories : e1._id = e2._id => e1 = e2
        /\ \A e \in overview.categories :
              e._id \in Categories /\ e.total >= 1 /\ e.completed \in 0..e.total
        /\ SumOver(overview.categories, "total") = overview.stats.total
        /\ SumOver(overview.categories, "completed") = overview.stats.completed

\* C14: every entry of the priority breakdown of a dashboard response
\* carries count, completed and percentage = round(completed/count x 100).
C14_PriorityEntryShape ==
    summary.sent =>
        \A e \in summary.byPriority :
            /\ DOMAIN e = {"_id", "count", "completed", "percentage"}
            /\ e.percentage = RoundDiv(e.completed * 100, e.count)

----------------------------------------------------------------------------
(* The progress time series: properties of a GET /api/stats/progress step *)

\* The step is a progress request and its response.
Progressed == ~series.sent /\ series'.sent

\* The goals of user u created at or after the start of the window of the
\* response r, by the stored documents.
Window(r) ==
    {g \in GoalIds :
        /\ goals[g].state = "live"
        /\ goals[g].userId = r.uid
        /\ goals[g].createdAt >= r.at - WindowDays(r.period) * MsPerDay}

\* The goals of the set G created on day d.
CreatedOn(G, d) == {g \in G : goals[g].createdAt \div MsPerDay = d}

\* C15: the series is built from the goals with createdAt >= windowStart
\* only; each of them adds 1 to created in the bucket of its creation day
\* and, if it is completed now, 1 to completed in that same bucket.
C15_CreationDayBuckets ==
    [][Progressed =>
        LET r == series'
            W == Window(r)
        IN  /\ r.matched = W
            /\ \A i \in 1..Len(r.data) :
                  /\ r.data[i].created =
                        Cardinality(CreatedOn(W, r.data[i]._id))
                  /\ r.data[i].completed =
                        Cardinality({g \in CreatedOn(W, r.data[i]._id) :
                                        goals[g].completed})
            /\ SumTo(r.data, "created", Len(r.data)) = Cardinality(W)]_vars

\* A response that leaves a goal of the user out of the window and counts
\* a goal completed on a later day than it was created.
C15_Witness ==
    /\ series.sent
    /\ \E g \in GoalIds \ series.matched :
          goals[g].state = "live" /\ goals[g].userId = series.uid
    /\ \E g \in series.matched, i \in 1..Len(series.data) :
          /\ goals[g].completed
          /\ DayOf(goals[g].completedAt) > DayOf(goals[g].createdAt)
          /\ series.data[i]._id = DayOf(goals[g].createdAt)
          /\ series.data[i].completed = 1

\* C16: the series has one bucket for each day on which a goal of the
\* window was created, none for another day, and the buckets are in
\* strictly ascending order of the day.
C16_OneBucketPerDayAscending ==
    [][Progressed =>
        LET r == series'
            days == {goals[g].createdAt \div MsPerDay : g \in Window(r)}
        IN  /\ {r.data[i]._id : i \in 1..Len(r.data)} = days
            /\ Len(r.data) = Cardinality(days)
            /\ \A i, j \in 1..Len(r.data) :
                  i < j => r.data[i]._id < r.data[j]._id]_vars

\* A response with buckets of two days.
C16_Witness ==
    /\ series.sent
    /\ Len(series.data) >= 2
    /\ series.data[1]._id # series.data[2]._id

\* C17: the cumulative total and completed of each bucket are the sums of
\* created and completed of the buckets up to it, both never fall, completed
\* <= total, the rate is round(completed/total x 100) in 0..100, and the
\* last bucket holds the total and completed counts of the window.
C17_RunningSums ==
    [][Progressed =>
        LET r == series'
            n == Len(r.progress)
            W == Window(r)
        IN  /\ n = Len(r.data)
            /\ \A i \in 1..n :
                  LET b == r.progress[i]
                  IN  /\ b.date = r.data[i]._id
                      /\ b.total = (IF i = 1 THEN 0 ELSE r.progress[i - 1].total)
                                       + r.data[i].created
                      /\ b.completed =
                            (IF i = 1 THEN 0 ELSE r.progress[i - 1].completed)
                                + r.data[i].completed
                      /\ b.completed <= b.total
                      /\ b.completionRate \in 0..100
                      /\ b.total > 0 =>
                            /\ 200 * b.completed - 2 * b.completionRate * b.total
                                  < b.total
                            /\ 200 * b.completed - 2 * b.completionRate * b.total
                                  >= -b.total
                      /\ b.total = 0 => b.completionRate = 0
            /\ n > 0 =>
                  /\ r.progress[n].total = Cardinality(W)
                  /\ r.progress[n].completed =
                        Cardinality({g \in W : goals[g].completed})]_vars

\* A response whose second bucket adds a goal to the first: 1 of 2 goals
\* completed, half of them.
C17_Witness ==
    /\ series.sent
    /\ Len(series.progress) >= 2
    /\ series.progress[1].total = 1
    /\ series.progress[2].total = 2
    /\ series.progress[2].completed = 1
    /\ series.progress[2].completionRate = 50

----------------------------------------------------------------------------
(* The goals: completion and ownership *)

\* C18: after any sequence of goal operations every stored goal has
\* completedAt set if and only if completed is true.
C18_CompletedAtIffCompleted ==
    \A g \in GoalIds :
        goals[g].state = "live" =>
            (goals[g].completedAt # NoDate <=> goals[g].completed)

\* The routes that are about one stored goal.
GoalRoutes == {"get", "put", "delete", "addSubtask", "toggleSubtask"}

\* C20: the userId of a goal never changes, a step that changes or deletes
\* a goal is a request of its owner, and a request about a goal by a user
\* who is not its owner is answered with 403 and leaves every goal as it is.
C20_OwnerOnly ==
    [][/\ \A g \in GoalIds :
             goals[g].state = "live" =>
                /\ goals'[g].state = "live" => goals'[g].userId = goals[g].userId
                /\ goals'[g] # goals[g] =>
                      /\ gres'.uid = goals[g].userId
                      /\ gres'.goal = g
                      /\ gres'.status = 200
       /\ (/\ gres' # gres
           /\ gres'.op \in GoalRoutes
           /\ goals[gres'.goal].state = "live"
           /\ goals[gres'.goal].userId # gres'.uid)
             => gres'.status = 403 /\ goals' = goals]_vars

\* A PUT by a user who does not own the goal, which has a subtask, was
\* answered with 403.
C20_Witness ==
    /\ gres.op = "put"
    /\ gres.status = 403
    /\ goals[gres.goal].state = "live"
    /\ goals[gres.goal].userId # gres.uid
    /\ Len(goals[gres.goal].subtasks) > 0

----------------------------------------------------------------------------
(* The user document: who writes the streak *)

\* C19: the streak of a user is changed by the update-streak operation
\* only: the saves of user initialization, profile update, updateStats and
\* account deletion leave current, longest and lastActiveDate as they are,
\* and the streak stays in the document.
C19_StreakOnlyByUpdateStreak ==
    [][/\ streak' # streak => Called
       /\ (ops.pc = "found" /\ ops'.pc # "found") => streak' = streak
       /\ DOMAIN streak' = {"current", "longest", "lastActiveDate"}]_vars

\* A profile update has saved its display name on a document whose stored
\* streak had moved on since the handler loaded it.
C19_Witness ==
    /\ ops.pc = "idle"
    /\ ops.kind = "profile"
    /\ ops.stale
    /\ user.displayName = "n"
    /\ streak.current >= 1

----------------------------------------------------------------------------
(* The methods of a goal: progress *)

\* The step is a call of method name.
MethodCalled(name) == call' # call /\ call'.name = name

\* C21: after markComplete, markIncomplete, updateProgress(p) and
\* toggleSubtask calls progress is within 0..100; updateProgress stores the
\* clamped p, sets completed when the clamped p is 100, leaves it as it was
\* when not, and so never reopens a completed goal; toggleSubtask sets
\* progress to round(completed subtasks / subtasks x 100).
C21_ProgressInRange ==
    [][/\ \A g \in GoalIds : goals'[g].progress \in 0..100
       /\ MethodCalled("updateProgress") =>
             LET g == call'.goal
                 p == call'.arg
                 c == IF p < 0 THEN 0 ELSE IF p > 100 THEN 100 ELSE p
             IN  /\ goals'[g].progress = c
                 /\ c = 100 => goals'[g].completed
                 /\ c # 100 => goals'[g].completed = goals[g].completed
                 /\ goals[g].completed => goals'[g].completed
       /\ (/\ MethodCalled("toggleSubtask")
           /\ call'.arg \in 1..Len(goals[call'.goal].subtasks))
             => LET d == goals'[call'.goal]
                    n == Len(d.subtasks)
                    k == Cardinality({i \in 1..n : d.subtasks[i].completed})
                IN  /\ n = Len(goals[call'.goal].subtasks)
                    /\ 200 * k - 2 * d.progress * n < n
                    /\ 200 * k - 2 * d.progress * n >= -n]_vars

\* toggleSubtask has left 2 of 3 subtasks done and progress at 67, on a goal
\* that updateProgress had completed before.
C21_Witness ==
    /\ call.name = "toggleSubtask"
    /\ Len(goals[call.goal].subtasks) = 3
    /\ CompletedSubtasks(goals[call.goal]) = 2
    /\ goals[call.goal].progress = 67
    /\ goals[call.goal].completed

----------------------------------------------------------------------------
(* The users collection: initialize and account deletion *)

\* The step is the write of an initialize request when the collection holds
\* the user.
InitializedExisting ==
    \E r \in Reqs : inits[r].pc = "found" /\ inits'[r].pc = "done" /\ docs > 0

\* C22, as claimed: there is at most one user document of a uid, and an
\* initialize for a uid that exists creates no user and changes lastLogin
\* and no other field.
C22_OnlyLastLogin ==
    [][/\ docs' <= 1
       /\ InitializedExisting =>
             /\ docs' = docs
             /\ streak' = streak
             /\ \A f \in DOMAIN user \ {"lastLogin"} : user'[f] = user[f]]_vars

\* C22, amended: there is at most one user document of a uid, and an
\* initialize for a uid that exists creates no user and changes lastLogin,
\* the updatedAt timestamp of the save, and no other field.
C22_OnlyLastLoginAndUpdatedAt ==
    [][/\ docs' <= 1
       /\ InitializedExisting =>
             /\ docs' = docs
             /\ streak' = streak
             /\ \A f \in DOMAIN user \ {"lastLogin", "updatedAt"} :
                   user'[f] = user[f]]_vars

\* Two requests found no user, one created it and the index refused the
\* other; a later request found the user and set lastLogin.
C22_Witness ==
    /\ docs = 1
    /\ \E r \in Reqs : inits[r].pc = "done" /\ inits[r].status = 500
    /\ \E r \in Reqs :
          inits[r].pc = "done" /\ inits[r].found /\ inits[r].status = 200
    /\ user.lastLogin > user.createdAt

\* C23: when an account deletion answers, the status of the user is
\* 'deleted' and no goal of the user is stored, also when goals of the user
\* are created during the deletion; the deletion leaves the goals of other
\* users as they are.
C23_NoGoalLeft ==
    [][/\ (ops.pc = "purged" /\ ops'.pc = "idle") =>
             user'.status = "deleted" /\ GoalsOf(Uid) = {}
       /\ (ops.pc = "saved" /\ ops'.pc = "purged") =>
             \A g \in GoalIds \ GoalsOf(Uid) : goals'[g] = goals[g]]_vars

====
